---- MODULE Spec2Model ----
(***************************************************************************)
(* Stm32ThreadxThread: the thread handle (class thread), its join protocol *)
(* and the current-thread facilities (namespace this_thread), on top of    *)
(* the ThreadX kernel services the wrapper calls.                          *)
(*                                                                         *)
(* One handle is one TX_THREAD control block embedded in a C++ object.     *)
(* Every execution context of the model is a thread of the kernel; the     *)
(* kernel is preemptive, so the next step may be taken by any thread whose *)
(* kernel state is TX_READY.  A kernel service is one atomic step (it runs *)
(* with interrupts or preemption disabled); a wrapper function that makes  *)
(* several kernel calls is one step per call.                              *)
(***************************************************************************)
EXTENDS Integers, FiniteSets, Sequences, TLC

\* ------------------------------------------------------------------ bounds
NumThreads == 3
\* The threads whose entry functions call the handles' operations; the entry
\* functions of the others only run, yield, sleep and return.
NumActors == 2
\* How often the program calls reset().
MaxResets == 1
\* The largest value of the kernel's unsigned tick type ULONG in the model:
\* tick arithmetic is modulo MaxTick + 1.
MaxTick == 3

\* ------------------------------------------------------- program constants
TOP_PRIORITY == 32
NULL == 0

Handles == 1..NumThreads
Actors == 1..NumActors
TickModulus == MaxTick + 1
\* TX_WAIT_FOREVER is the all-ones ULONG.
infinite_delay == MaxTick
TX_NO_WAIT == NULL

\* Kernel thread states (tx_thread_state).  TX_READY is the value 0, which is
\* what the value-initialised control block of a constructed handle holds.
TX_READY == "TX_READY"
TX_COMPLETED == "TX_COMPLETED"
TX_TERMINATED == "TX_TERMINATED"
TX_SUSPENDED == "TX_SUSPENDED"
TX_SLEEP == "TX_SLEEP"
TX_SEMAPHORE_SUSP == "TX_SEMAPHORE_SUSP"

\* Kernel status codes.
TX_SUCCESS == "TX_SUCCESS"
TX_THREAD_ERROR == "TX_THREAD_ERROR"
TX_PRIORITY_ERROR == "TX_PRIORITY_ERROR"
TX_SIZE_ERROR == "TX_SIZE_ERROR"
TX_SUSPEND_ERROR == "TX_SUSPEND_ERROR"
TX_RESUME_ERROR == "TX_RESUME_ERROR"
TX_SUSPEND_LIFTED == "TX_SUSPEND_LIFTED"
TX_DELETE_ERROR == "TX_DELETE_ERROR"
TX_NOT_DONE == "TX_NOT_DONE"

\* Reason codes of the entry/exit notification.
TX_THREAD_ENTRY == "TX_THREAD_ENTRY"
TX_THREAD_EXIT == "TX_THREAD_EXIT"

\* The only function the wrapper ever registers in the notification slot.
JOIN_EXIT_CALLBACK == "join_exit_callback"
NO_CALLBACK == "null"

\* thread::state
running == "running"
ready == "ready"
completed == "completed"
terminated == "terminated"
suspended == "suspended"

VARIABLES
    alive,                            \* the C++ object is within its lifetime
    prio,                             \* thread::prio, set by the constructor
    stack_size,                       \* thread::stack_size, set by the constructor
    tx_thread_id,                     \* TRUE: the block holds TX_THREAD_ID
    tx_thread_state,
    tx_thread_delayed_suspend,
    tx_thread_user_priority,
    tx_thread_user_preempt_threshold,
    tx_thread_entry_exit_notify,
    entry_exit_param_,                \* NULL, c: the semaphore of c's running
                                      \* join(), -c: one of c's that is gone
    tx_thread_timer,                  \* remaining ticks of the thread's timer
    tx_timer_system_clock,            \* tx_time_get()
    sem,                              \* count of the semaphore in c's join()
    pc,                               \* where each thread's code stands
    arg,                              \* the handle of the call in progress
    exited,                           \* history: the handle c joins has exited
                                      \* since c's join() checked joinable()
    resets,                           \* history: the calls of reset() so far
    last_call,                        \* history: the last recorded call
                                      \* (setPriority, sleepFor, createThread,
                                      \* suspend, resume, terminate, the join
                                      \* callback on thread entry): its input, the target's kernel
                                      \* state before it, the kernel's status
    fault                             \* the fatal fault state (assert, abort)

vars == <<alive, prio, stack_size, tx_thread_id, tx_thread_state,
          tx_thread_delayed_suspend, tx_thread_user_priority,
          tx_thread_user_preempt_threshold, tx_thread_entry_exit_notify,
          entry_exit_param_, tx_thread_timer, tx_timer_system_clock, sem, pc,
          arg, exited, resets, last_call, fault>>

\* The program's variables, without the history variables.
programVars == <<alive, prio, stack_size, tx_thread_id, tx_thread_state,
                 tx_thread_delayed_suspend, tx_thread_user_priority,
                 tx_thread_user_preempt_threshold, tx_thread_entry_exit_notify,
                 entry_exit_param_, tx_thread_timer, tx_timer_system_clock,
                 sem, pc, arg, fault>>

\* The constructor's arguments.
ctorVars == <<prio, stack_size>>
\* The control block's scheduling fields.
schedVars == <<tx_thread_state, tx_thread_delayed_suspend, tx_thread_timer>>
prioVars == <<tx_thread_user_priority, tx_thread_user_preempt_threshold>>
notifyVars == <<tx_thread_entry_exit_notify, entry_exit_param_>>

NoCall == [op |-> "none", caller |-> NULL, target |-> NULL, input |-> NULL,
           before |-> "none", status |-> "none"]
Call(op, c, h, in, st) ==
    [op |-> op, caller |-> c, target |-> h, input |-> in,
     before |-> tx_thread_state[h], status |-> st]
NoFault == [kind |-> "none", caller |-> NULL, target |-> NULL]
Fault(k, c, h) == [kind |-> k, caller |-> c, target |-> h]

\* ------------------------------------------------------------- tick timer
\* tick_timer::duration: a count of ticks held in the unsigned rep.
duration(n) == [count |-> n % TickModulus]
\* tick_timer::time_point: a duration since the epoch.
time_point(d) == [time_since_epoch |-> d]
\* A conversion to a coarser unit, which loses the odd tick.
toTicks_coarser(d) == (d.count \div 2) * 2
toTicks(d) == d.count
toTicksTimePoint(t) == toTicks(t.time_since_epoch)
now == time_point(duration(tx_timer_system_clock))
infinity == duration(infinite_delay)
\* time_point - time_point in the unsigned rep.
time_point_minus(a, b) ==
    duration(toTicksTimePoint(a) + TickModulus - toTicksTimePoint(b))

\* thread::priority
priority_default == 1
priority_max == TOP_PRIORITY
priority_min == 0

\* The stack sizes a handle is constructed with.
DEFAULT_STACK_SIZE == "MIN_STACK_SIZE"
STACK_TOO_SMALL == "below TX_MINIMUM_STACK"

\* ------------------------------------------------------------ inputs
CtorArgs == { <<priority_default, DEFAULT_STACK_SIZE>>,
              <<priority_max, DEFAULT_STACK_SIZE>>,
              <<priority_default, STACK_TOO_SMALL>> }
PrioInputs == {priority_min, TOP_PRIORITY - 1, priority_max, TOP_PRIORITY + 1}
SleepInputs == {duration(0), duration(1), infinity}
DeadlineInputs == {time_point(duration(n)) : n \in 0..MaxTick}

\* ------------------------------------------------------------- program
JoinPcs == {"join_register", "join_store", "join_acquire", "join_wait"}
InJoin(c) == pc[c] \in JoinPcs

\* The thread c is executing its entry function and is scheduled.
Running(c) ==
    /\ fault = NoFault
    /\ alive[c]
    /\ tx_thread_id[c]
    /\ tx_thread_state[c] = TX_READY

\* The state after the handles' constructors, with arguments a.  Handle 1 has
\* been created and resumed and runs its entry function; the others are
\* constructed only: TX_THREAD_STRUCT() leaves the control block all zero.
Constructed(a) ==
    /\ alive = [h \in Handles |-> TRUE]
    /\ prio = [h \in Handles |-> a[h][1]]
    /\ stack_size = [h \in Handles |-> a[h][2]]
    /\ tx_thread_id = [h \in Handles |-> h = 1]
    /\ tx_thread_state = [h \in Handles |-> TX_READY]
    /\ tx_thread_delayed_suspend = [h \in Handles |-> FALSE]
    /\ tx_thread_user_priority = [h \in Handles |-> IF h = 1 THEN a[h][1] ELSE 0]
    /\ tx_thread_user_preempt_threshold =
          [h \in Handles |-> IF h = 1 THEN a[h][1] ELSE 0]
    /\ tx_thread_entry_exit_notify = [h \in Handles |-> NO_CALLBACK]
    /\ entry_exit_param_ = [h \in Handles |-> NULL]
    /\ tx_thread_timer = [h \in Handles |-> 0]
    /\ tx_timer_system_clock = 0
    /\ sem = [h \in Handles |-> 0]
    /\ pc = [h \in Handles |-> IF h = 1 THEN "run" ELSE "unstarted"]
    /\ arg = [h \in Handles |-> NULL]
    /\ exited = [h \in Handles |-> FALSE]
    /\ resets = 0
    /\ last_call = NoCall
    /\ fault = NoFault

DefaultArgs == <<priority_default, DEFAULT_STACK_SIZE>>

\* Every handle constructed with the default priority and stack size.
Init == Constructed([h \in Handles |-> DefaultArgs])

\* The handles not yet created constructed with any of the arguments.
InitCtor ==
    \E a \in [Handles -> CtorArgs] : a[1] = DefaultArgs /\ Constructed(a)

\* ----------------------------------------------- kernel services (ThreadX)
\* The services are modelled as the kernel documents them (the error-checking
\* entry points): a service called on a block that does not hold
\* TX_THREAD_ID returns TX_THREAD_ERROR and changes nothing.
TX_MAX_PRIORITIES == TOP_PRIORITY

Outcome(st, dl, sm, flt) == [st |-> st, dl |-> dl, sm |-> sm, flt |-> flt]

\* What a resumed thread's state becomes (_tx_thread_system_resume): a
\* suspension requested while it was blocked takes effect now.
Resumed(c, dl) == IF dl[c] THEN TX_SUSPENDED ELSE TX_READY

\* binary_semaphore::release() on the semaphore of c's running join(): the
\* thread blocked on it is resumed, otherwise the count becomes 1.
release(c, st, dl, sm) ==
    IF pc[c] = "join_wait" /\ st[c] = TX_SEMAPHORE_SUSP
    THEN Outcome([st EXCEPT ![c] = Resumed(c, dl)],
                 [dl EXCEPT ![c] = FALSE], sm, NoFault)
    ELSE Outcome(st, dl, [sm EXCEPT ![c] = 1], NoFault)

\* exit_cond->release() through a pointer that is null or dangling is
\* undefined: nothing visible happens, the program faults, or (dangling) the
\* call lands on the semaphore that now lives at that place of c's stack.
release_undefined(t, c, st, dl, sm) ==
    {Outcome(st, dl, sm, NoFault),
     Outcome(st, dl, sm, Fault("undefined_behaviour", t, t))}
    \cup (IF c # NULL /\ InJoin(c) THEN {release(c, st, dl, sm)} ELSE {})

\* A callback that acts on every reason code.
join_exit_callback_any_reason(t, id, st, dl, sm) ==
    LET exit_cond == entry_exit_param_[t] IN
    IF exit_cond = NULL THEN release_undefined(t, NULL, st, dl, sm)
    ELSE IF exit_cond > 0 THEN {release(exit_cond, st, dl, sm)}
    ELSE release_undefined(t, -exit_cond, st, dl, sm)

\* thread::join_exit_callback
join_exit_callback(t, id, st, dl, sm) ==
    IF id = TX_THREAD_EXIT
    THEN LET exit_cond == entry_exit_param_[t] IN
         IF exit_cond = NULL THEN release_undefined(t, NULL, st, dl, sm)
         ELSE IF exit_cond > 0 THEN {release(exit_cond, st, dl, sm)}
         ELSE release_undefined(t, -exit_cond, st, dl, sm)
    ELSE {Outcome(st, dl, sm, NoFault)}

\* The kernel's call of the registered entry/exit notification.
entry_exit_notify(t, id, st, dl, sm) ==
    IF tx_thread_entry_exit_notify[t] = NO_CALLBACK
    THEN {Outcome(st, dl, sm, NoFault)}
    ELSE join_exit_callback(t, id, st, dl, sm)

Apply(o) ==
    /\ tx_thread_state' = o.st
    /\ tx_thread_delayed_suspend' = o.dl
    /\ sem' = o.sm
    /\ fault' = o.flt

\* History: every thread whose join() is on t has seen t exit.
NoteExit(t) ==
    exited' = [c \in Handles |-> exited[c] \/ (InJoin(c) /\ arg[c] = t)]

\* The frames of thread t are gone: a pointer to a semaphore in them dangles.
Dangle(t, param) ==
    [x \in Handles |-> IF param[x] = t THEN -t ELSE param[x]]

tx_thread_create(h) ==
    IF tx_thread_id[h] THEN TX_THREAD_ERROR
    ELSE IF stack_size[h] = STACK_TOO_SMALL THEN TX_SIZE_ERROR
    ELSE IF prio[h] >= TX_MAX_PRIORITIES THEN TX_PRIORITY_ERROR
    ELSE TX_SUCCESS

tx_thread_terminate(h) ==
    IF tx_thread_id[h] THEN TX_SUCCESS ELSE TX_THREAD_ERROR

\* A terminate that acts on ready threads only.
Terminates_ready_only(h) == tx_thread_id[h] /\ tx_thread_state[h] = TX_READY

\* The thread ends now: terminate is a no-op on a finished thread.
Terminates(h) ==
    tx_thread_id[h] /\ tx_thread_state[h] \notin {TX_COMPLETED, TX_TERMINATED}

tx_thread_delete(h) ==
    IF ~tx_thread_id[h] THEN TX_THREAD_ERROR
    ELSE IF tx_thread_state[h] \notin {TX_COMPLETED, TX_TERMINATED}
         THEN TX_DELETE_ERROR
    ELSE TX_SUCCESS

tx_thread_suspend(h) ==
    IF ~tx_thread_id[h] THEN TX_THREAD_ERROR
    ELSE IF tx_thread_state[h] \in {TX_COMPLETED, TX_TERMINATED}
         THEN TX_SUSPEND_ERROR
    ELSE TX_SUCCESS

\* A kernel that resumes a finished thread as if it were suspended.
tx_thread_resume_finished(h) ==
    IF ~tx_thread_id[h] THEN TX_THREAD_ERROR
    ELSE IF tx_thread_state[h] \in {TX_SUSPENDED, TX_COMPLETED, TX_TERMINATED}
         THEN TX_SUCCESS
    ELSE IF tx_thread_delayed_suspend[h] THEN TX_SUSPEND_LIFTED
    ELSE TX_RESUME_ERROR

tx_thread_resume(h) ==
    IF ~tx_thread_id[h] THEN TX_THREAD_ERROR
    ELSE IF tx_thread_state[h] = TX_SUSPENDED THEN TX_SUCCESS
    ELSE IF tx_thread_delayed_suspend[h] THEN TX_SUSPEND_LIFTED
    ELSE TX_RESUME_ERROR

tx_thread_reset(c, h) ==
    IF ~tx_thread_id[h] THEN TX_THREAD_ERROR
    ELSE IF h = c THEN TX_NOT_DONE
    ELSE IF tx_thread_state[h] \notin {TX_COMPLETED, TX_TERMINATED}
         THEN TX_NOT_DONE
    ELSE TX_SUCCESS

tx_thread_priority_change(h, p) ==
    IF ~tx_thread_id[h] THEN TX_THREAD_ERROR
    ELSE IF p >= TX_MAX_PRIORITIES THEN TX_PRIORITY_ERROR
    ELSE TX_SUCCESS

tx_thread_entry_exit_notify_status(h) ==
    IF tx_thread_id[h] THEN TX_SUCCESS ELSE TX_THREAD_ERROR

\* ------------------------------------------------------------ observers
\* getState() without the comparison with the current thread.
getState_no_identity(c, h) ==
    CASE tx_thread_state[h] = TX_READY -> running
      [] tx_thread_state[h] = TX_COMPLETED -> completed
      [] tx_thread_state[h] = TX_TERMINATED -> terminated
      [] OTHER -> suspended

\* thread::getCurrent() is the calling thread c.
getState(c, h) ==
    CASE tx_thread_state[h] = TX_READY -> IF c = h THEN running ELSE ready
      [] tx_thread_state[h] = TX_COMPLETED -> completed
      [] tx_thread_state[h] = TX_TERMINATED -> terminated
      [] OTHER -> suspended

getPriority(h) == tx_thread_user_priority[h]

get_entry_exit_param(h) == entry_exit_param_[h]

\* joinable() that looks at the parameter slot only.
joinable_slot_only(c, h) == NULL = entry_exit_param_[h]

joinable(c, h) ==
    /\ getState(c, h) # completed
    /\ getState(c, h) # terminated
    /\ NULL = get_entry_exit_param(h)

\* join() without its second assertion.
join_preconditions_no_self_check(c, h) ==
    IF ~joinable(c, h) THEN Fault("join_not_joinable", c, h) ELSE NoFault

\* join() without its first assertion.
join_preconditions_no_joinable_check(c, h) ==
    IF h = c THEN Fault("join_self", c, h) ELSE NoFault

\* The two assertions of join(), in the order of the code.
join_preconditions(c, h) ==
    IF ~joinable(c, h) THEN Fault("join_not_joinable", c, h)
    ELSE IF h = c THEN Fault("join_self", c, h)
    ELSE NoFault

\* ------------------------------------------------------------- actions
\* A call is made by a thread that is scheduled and inside its entry
\* function, on a handle whose object is within its lifetime.
Calls(c, h) == c \in Actors /\ Running(c) /\ pc[c] = "run" /\ alive[h]

\* _tx_thread_shell_entry, before the entry function: the entry notification.
ThreadEntry(c) ==
    /\ Running(c)
    /\ pc[c] = "unstarted"
    /\ \E o \in entry_exit_notify(c, TX_THREAD_ENTRY, tx_thread_state,
                                  tx_thread_delayed_suspend, sem) : Apply(o)
    /\ pc' = [pc EXCEPT ![c] = "run"]
    /\ last_call' = IF tx_thread_entry_exit_notify[c] = NO_CALLBACK
                    THEN last_call
                    ELSE Call("join_exit_callback", c, c, TX_THREAD_ENTRY,
                              "none")
    /\ UNCHANGED <<resets, alive, ctorVars, tx_thread_id, prioVars, notifyVars,
                   tx_thread_timer, tx_timer_system_clock, arg, exited>>

\* The entry function returns: the kernel marks the thread completed and makes
\* the exit notification before any other thread runs.
ThreadExit(c) ==
    /\ Running(c)
    /\ pc[c] = "run"
    /\ \E o \in entry_exit_notify(c, TX_THREAD_EXIT,
                                  [tx_thread_state EXCEPT ![c] = TX_COMPLETED],
                                  tx_thread_delayed_suspend, sem) : Apply(o)
    /\ pc' = [pc EXCEPT ![c] = "done"]
    /\ NoteExit(c)
    /\ UNCHANGED <<resets, last_call, alive, ctorVars, tx_thread_id, prioVars, notifyVars,
                   tx_thread_timer, tx_timer_system_clock, arg>>

\* createThread() that passes TX_AUTO_START: the thread is created ready.
createThread_auto_start(c, h) ==
    /\ Calls(c, h)
    /\ IF tx_thread_create(h) = TX_SUCCESS
       THEN /\ tx_thread_id' = [tx_thread_id EXCEPT ![h] = TRUE]
            /\ tx_thread_state' = [tx_thread_state EXCEPT ![h] = TX_READY]
            /\ tx_thread_user_priority' =
                  [tx_thread_user_priority EXCEPT ![h] = prio[h]]
            /\ tx_thread_user_preempt_threshold' =
                  [tx_thread_user_preempt_threshold EXCEPT ![h] = prio[h]]
            /\ UNCHANGED <<tx_thread_delayed_suspend, tx_thread_timer,
                           notifyVars, fault>>
       ELSE /\ fault' = Fault("createThread", c, h)
            /\ UNCHANGED <<tx_thread_id, schedVars, prioVars, notifyVars>>
    /\ UNCHANGED <<resets, alive, ctorVars, tx_timer_system_clock,
                   sem, pc, arg, exited>>

\* createThread() that does not look at the kernel's status.
createThread_unasserted(c, h) ==
    /\ Calls(c, h)
    /\ IF tx_thread_create(h) = TX_SUCCESS
       THEN /\ tx_thread_id' = [tx_thread_id EXCEPT ![h] = TRUE]
            /\ tx_thread_state' = [tx_thread_state EXCEPT ![h] = TX_SUSPENDED]
            /\ tx_thread_user_priority' =
                  [tx_thread_user_priority EXCEPT ![h] = prio[h]]
            /\ tx_thread_user_preempt_threshold' =
                  [tx_thread_user_preempt_threshold EXCEPT ![h] = prio[h]]
            /\ UNCHANGED <<tx_thread_delayed_suspend, tx_thread_timer,
                           notifyVars>>
       ELSE UNCHANGED <<tx_thread_id, schedVars, prioVars, notifyVars>>
    /\ UNCHANGED <<resets, alive, ctorVars, tx_timer_system_clock,
                   sem, pc, arg, exited, fault>>

\* createThread() is written without the history variable, like suspend().
createThread(c, h) ==
    /\ Calls(c, h)
    /\ IF tx_thread_create(h) = TX_SUCCESS
       THEN \* the block is cleared, then filled in; TX_DONT_START
            /\ tx_thread_id' = [tx_thread_id EXCEPT ![h] = TRUE]
            /\ tx_thread_state' = [tx_thread_state EXCEPT ![h] = TX_SUSPENDED]
            /\ tx_thread_delayed_suspend' =
                  [tx_thread_delayed_suspend EXCEPT ![h] = FALSE]
            /\ tx_thread_timer' = [tx_thread_timer EXCEPT ![h] = 0]
            /\ tx_thread_user_priority' =
                  [tx_thread_user_priority EXCEPT ![h] = prio[h]]
            /\ tx_thread_user_preempt_threshold' =
                  [tx_thread_user_preempt_threshold EXCEPT ![h] = prio[h]]
            /\ tx_thread_entry_exit_notify' =
                  [tx_thread_entry_exit_notify EXCEPT ![h] = NO_CALLBACK]
            /\ entry_exit_param_' = [entry_exit_param_ EXCEPT ![h] = NULL]
            /\ UNCHANGED fault
       ELSE /\ fault' = Fault("createThread", c, h)
            /\ UNCHANGED <<tx_thread_id, schedVars, prioVars, notifyVars>>
    /\ UNCHANGED <<resets, alive, ctorVars, tx_timer_system_clock, sem, pc,
                   arg, exited>>

createThreadCall(c, h) ==
    /\ createThread(c, h)
    /\ last_call' = Call("createThread", c, h, prio[h], tx_thread_create(h))

\* A suspend() that counts: a second request on a suspended thread is kept
\* pending.
suspend_counting(c, h) ==
    /\ Calls(c, h)
    /\ IF tx_thread_suspend(h) # TX_SUCCESS
       THEN UNCHANGED <<tx_thread_state, tx_thread_delayed_suspend>>
       ELSE IF tx_thread_state[h] = TX_READY
       THEN /\ tx_thread_state' = [tx_thread_state EXCEPT ![h] = TX_SUSPENDED]
            /\ UNCHANGED tx_thread_delayed_suspend
       ELSE /\ tx_thread_delayed_suspend' =
                  [tx_thread_delayed_suspend EXCEPT ![h] = TRUE]
            /\ UNCHANGED tx_thread_state
    /\ UNCHANGED <<resets, alive, ctorVars, tx_thread_id, prioVars, notifyVars,
                   tx_thread_timer, tx_timer_system_clock, sem, pc, arg,
                   exited, fault>>

\* suspend(), resume() and terminate() are written without the history
\* variable, which a specification either keeps (Unrecorded) or sets
\* (suspendCall, resumeCall, terminateCall).
suspend(c, h) ==
    /\ Calls(c, h)
    /\ IF tx_thread_suspend(h) # TX_SUCCESS
          \/ tx_thread_state[h] = TX_SUSPENDED
       THEN UNCHANGED <<tx_thread_state, tx_thread_delayed_suspend>>
       ELSE IF tx_thread_state[h] = TX_READY
       THEN /\ tx_thread_state' = [tx_thread_state EXCEPT ![h] = TX_SUSPENDED]
            /\ UNCHANGED tx_thread_delayed_suspend
       ELSE \* blocked: the suspension is delayed until the thread is released
            /\ tx_thread_delayed_suspend' =
                  [tx_thread_delayed_suspend EXCEPT ![h] = TRUE]
            /\ UNCHANGED tx_thread_state
    \* the status is not looked at: the call returns
    /\ UNCHANGED <<resets, alive, ctorVars, tx_thread_id, prioVars, notifyVars,
                   tx_thread_timer, tx_timer_system_clock, sem, pc, arg,
                   exited, fault>>

resume(c, h) ==
    /\ Calls(c, h)
    /\ IF tx_thread_resume(h) = TX_SUCCESS
       THEN /\ tx_thread_state' = [tx_thread_state EXCEPT ![h] = TX_READY]
            /\ UNCHANGED tx_thread_delayed_suspend
       ELSE IF tx_thread_resume(h) = TX_SUSPEND_LIFTED
       THEN /\ tx_thread_delayed_suspend' =
                  [tx_thread_delayed_suspend EXCEPT ![h] = FALSE]
            /\ UNCHANGED tx_thread_state
       ELSE UNCHANGED <<tx_thread_state, tx_thread_delayed_suspend>>
    \* the status is not looked at: the call returns
    /\ UNCHANGED <<resets, alive, ctorVars, tx_thread_id, prioVars, notifyVars,
                   tx_thread_timer, tx_timer_system_clock, sem, pc, arg,
                   exited, fault>>

Unrecorded == UNCHANGED last_call
suspendCall(c, h) ==
    suspend(c, h) /\ last_call' = Call("suspend", c, h, NULL, tx_thread_suspend(h))
resumeCall(c, h) ==
    resume(c, h) /\ last_call' = Call("resume", c, h, NULL, tx_thread_resume(h))

\* _tx_thread_terminate on a valid block: the thread ends, its timer is
\* stopped and the exit notification is made, unless it had finished already.
thread_terminate(h) ==
    IF Terminates(h)
    THEN /\ \E o \in entry_exit_notify(h, TX_THREAD_EXIT,
                        [tx_thread_state EXCEPT ![h] = TX_TERMINATED],
                        tx_thread_delayed_suspend, sem) : Apply(o)
         /\ tx_thread_timer' = [tx_thread_timer EXCEPT ![h] = 0]
         /\ NoteExit(h)
    ELSE UNCHANGED <<schedVars, sem, fault, exited>>

terminate(c, h) ==
    /\ Calls(c, h)
    /\ thread_terminate(h)
    \* the status is not looked at: the call returns
    /\ UNCHANGED <<resets, alive, ctorVars, tx_thread_id, prioVars, notifyVars,
                   tx_timer_system_clock, pc, arg>>

terminateCall(c, h) ==
    /\ terminate(c, h)
    /\ last_call' = Call("terminate", c, h, NULL, tx_thread_terminate(h))

reset(c, h) ==
    /\ Calls(c, h)
    /\ resets < MaxResets
    /\ resets' = resets + 1
    /\ IF tx_thread_reset(c, h) = TX_SUCCESS
       THEN \* the stack is rebuilt: the thread starts over when resumed
            /\ tx_thread_state' = [tx_thread_state EXCEPT ![h] = TX_SUSPENDED]
            /\ pc' = [pc EXCEPT ![h] = "unstarted"]
            /\ arg' = [arg EXCEPT ![h] = NULL]
            /\ sem' = [sem EXCEPT ![h] = 0]
            /\ exited' = [exited EXCEPT ![h] = FALSE]
            /\ entry_exit_param_' = Dangle(h, entry_exit_param_)
       ELSE UNCHANGED <<tx_thread_state, pc, arg, sem, exited, entry_exit_param_>>
    /\ UNCHANGED <<last_call, alive, ctorVars, tx_thread_id,
                   tx_thread_delayed_suspend, tx_thread_timer, prioVars,
                   tx_thread_entry_exit_notify, tx_timer_system_clock, fault>>

\* A setPriority that leaves the preemption threshold alone.
setPriority_priority_only(c, h, p) ==
    /\ Calls(c, h)
    /\ IF tx_thread_priority_change(h, p) = TX_SUCCESS
       THEN tx_thread_user_priority' =
                  [tx_thread_user_priority EXCEPT ![h] = p]
       ELSE UNCHANGED tx_thread_user_priority
    /\ last_call' = Call("setPriority", c, h, p,
                          tx_thread_priority_change(h, p))
    /\ UNCHANGED <<resets, alive, ctorVars, tx_thread_id, schedVars,
                   tx_thread_user_preempt_threshold, notifyVars,
                   tx_timer_system_clock, sem, pc, arg, exited, fault>>

setPriority(c, h, p) ==
    /\ Calls(c, h)
    /\ IF tx_thread_priority_change(h, p) = TX_SUCCESS
       THEN /\ tx_thread_user_priority' =
                  [tx_thread_user_priority EXCEPT ![h] = p]
            /\ tx_thread_user_preempt_threshold' =
                  [tx_thread_user_preempt_threshold EXCEPT ![h] = p]
       ELSE UNCHANGED prioVars
    \* the status is not looked at: the call returns
    /\ last_call' = Call("setPriority", c, h, p,
                          tx_thread_priority_change(h, p))
    /\ UNCHANGED <<resets, alive, ctorVars, tx_thread_id, schedVars,
                   notifyVars, tx_timer_system_clock, sem, pc, arg, exited,
                   fault>>

\* this_thread::yield: tx_thread_relinquish changes no state of the model.
yield(c) ==
    /\ Running(c)
    /\ pc[c] = "run"
    /\ UNCHANGED vars

\* ------------------------------------------------------- this_thread
\* tx_thread_sleep(ticks): zero ticks returns at once; otherwise the caller
\* sleeps, and its timer runs unless the count is TX_WAIT_FOREVER.
\* A sleepFor that hands zero ticks to the timer like any other count.
sleepFor_zero_blocks(c, rel_time) ==
    /\ Running(c)
    /\ pc[c] = "run"
    /\ tx_thread_state' = [tx_thread_state EXCEPT ![c] = TX_SLEEP]
    /\ tx_thread_timer' = [tx_thread_timer EXCEPT ![c] = toTicks(rel_time)]
    /\ pc' = [pc EXCEPT ![c] = "sleep"]
    /\ last_call' = Call("sleepFor", c, c, toTicks(rel_time), TX_SUCCESS)
    /\ UNCHANGED <<resets, alive, ctorVars, tx_thread_id,
                   tx_thread_delayed_suspend, prioVars, notifyVars,
                   tx_timer_system_clock, sem, arg, exited, fault>>

sleepFor(c, rel_time) ==
    /\ Running(c)
    /\ pc[c] = "run"
    /\ IF toTicks(rel_time) = TX_NO_WAIT
       THEN UNCHANGED <<tx_thread_state, tx_thread_timer, pc>>
       ELSE /\ tx_thread_state' = [tx_thread_state EXCEPT ![c] = TX_SLEEP]
            /\ tx_thread_timer' =
                  [tx_thread_timer EXCEPT ![c] = toTicks(rel_time)]
            /\ pc' = [pc EXCEPT ![c] = "sleep"]
    /\ last_call' = Call("sleepFor", c, c, toTicks(rel_time), TX_SUCCESS)
    /\ UNCHANGED <<resets, alive, ctorVars, tx_thread_id, tx_thread_delayed_suspend,
                   prioVars, notifyVars, tx_timer_system_clock, sem, arg,
                   exited, fault>>

sleepUntil(c, abs_time) == sleepFor(c, time_point_minus(abs_time, now))

\* tx_thread_sleep returns TX_SUCCESS to the woken thread.
sleepReturn(c) ==
    /\ Running(c)
    /\ pc[c] = "sleep"
    /\ pc' = [pc EXCEPT ![c] = "run"]
    /\ UNCHANGED <<resets, last_call, alive, ctorVars, tx_thread_id, schedVars, prioVars,
                   notifyVars, tx_timer_system_clock, sem, arg, exited, fault>>

\* The kernel's timer interrupt: the tick count advances in the unsigned
\* type, and a sleeping thread whose timer runs out is resumed.
Counting(c) ==
    /\ tx_thread_state[c] = TX_SLEEP
    /\ tx_thread_timer[c] \notin {0, infinite_delay}

Tick ==
    /\ fault = NoFault
    /\ tx_timer_system_clock' = (tx_timer_system_clock + 1) % TickModulus
    /\ tx_thread_timer' =
          [c \in Handles |-> IF Counting(c) THEN tx_thread_timer[c] - 1
                             ELSE tx_thread_timer[c]]
    /\ tx_thread_state' =
          [c \in Handles |-> IF Counting(c) /\ tx_thread_timer[c] = 1
                             THEN Resumed(c, tx_thread_delayed_suspend)
                             ELSE tx_thread_state[c]]
    /\ tx_thread_delayed_suspend' =
          [c \in Handles |-> IF Counting(c) /\ tx_thread_timer[c] = 1
                             THEN FALSE ELSE tx_thread_delayed_suspend[c]]
    /\ UNCHANGED <<resets, last_call, alive, ctorVars, tx_thread_id, prioVars, notifyVars, sem,
                   pc, arg, exited, fault>>

\* ---------------------------------------------------------------- join
\* join(): the two assertions, then the semaphore is constructed, unsignaled.
join(c, h) ==
    /\ Calls(c, h)
    /\ IF join_preconditions(c, h) # NoFault
       THEN /\ fault' = join_preconditions(c, h)
            /\ UNCHANGED <<pc, arg, sem, exited>>
       ELSE /\ pc' = [pc EXCEPT ![c] = "join_register"]
            /\ arg' = [arg EXCEPT ![c] = h]
            /\ sem' = [sem EXCEPT ![c] = 0]
            /\ exited' = [exited EXCEPT ![c] = FALSE]
            /\ UNCHANGED fault
    /\ UNCHANGED <<resets, last_call, alive, ctorVars, tx_thread_id, schedVars, prioVars,
                   notifyVars, tx_timer_system_clock>>

\* set_entry_exit_callback, the kernel call: the parameter is stored only
\* when the kernel accepted the callback.
set_entry_exit_callback(c) ==
    /\ Running(c)
    /\ pc[c] = "join_register"
    /\ IF tx_thread_entry_exit_notify_status(arg[c]) = TX_SUCCESS
       THEN /\ tx_thread_entry_exit_notify' =
                  [tx_thread_entry_exit_notify EXCEPT
                      ![arg[c]] = JOIN_EXIT_CALLBACK]
            /\ pc' = [pc EXCEPT ![c] = "join_store"]
       ELSE /\ pc' = [pc EXCEPT ![c] = "join_acquire"]
            /\ UNCHANGED tx_thread_entry_exit_notify
    /\ UNCHANGED <<resets, last_call, alive, ctorVars, tx_thread_id, schedVars, prioVars,
                   entry_exit_param_, tx_timer_system_clock, sem, arg,
                   exited, fault>>

\* set_entry_exit_callback, the assignment entry_exit_param_ = param.
store_entry_exit_param(c) ==
    /\ Running(c)
    /\ pc[c] = "join_store"
    /\ entry_exit_param_' = [entry_exit_param_ EXCEPT ![arg[c]] = c]
    /\ pc' = [pc EXCEPT ![c] = "join_acquire"]
    /\ UNCHANGED <<resets, last_call, alive, ctorVars, tx_thread_id, schedVars, prioVars,
                   tx_thread_entry_exit_notify, tx_timer_system_clock, sem,
                   arg, exited, fault>>

\* The handle a join() is working on was destroyed meanwhile: the calls on it
\* are undefined; besides reading the dead block as it was left, they fault.
useDestroyed(c) ==
    /\ Running(c)
    /\ pc[c] \in {"join_register", "join_store"}
    /\ ~alive[arg[c]]
    /\ fault' = Fault("undefined_behaviour", c, arg[c])
    /\ UNCHANGED <<resets, last_call, alive, ctorVars, tx_thread_id, schedVars, prioVars,
                   notifyVars, tx_timer_system_clock, sem, pc, arg, exited>>

\* exit_cond.acquire(): takes the signal if it is there, else blocks.
acquire(c) ==
    /\ Running(c)
    /\ pc[c] = "join_acquire"
    /\ IF sem[c] > 0
       THEN /\ sem' = [sem EXCEPT ![c] = 0]
            /\ UNCHANGED tx_thread_state
       ELSE /\ tx_thread_state' =
                  [tx_thread_state EXCEPT ![c] = TX_SEMAPHORE_SUSP]
            /\ UNCHANGED sem
    /\ pc' = [pc EXCEPT ![c] = "join_wait"]
    /\ UNCHANGED <<resets, last_call, alive, ctorVars, tx_thread_id, tx_thread_delayed_suspend,
                   tx_thread_timer, prioVars, notifyVars,
                   tx_timer_system_clock, arg, exited, fault>>

\* acquire() has returned: join() returns and its semaphore is destroyed.  The
\* handle keeps the callback and the pointer to the semaphore.
joinReturn(c) ==
    /\ Running(c)
    /\ pc[c] = "join_wait"
    /\ pc' = [pc EXCEPT ![c] = "run"]
    /\ arg' = [arg EXCEPT ![c] = NULL]
    /\ exited' = [exited EXCEPT ![c] = FALSE]
    /\ entry_exit_param_' = Dangle(c, entry_exit_param_)
    /\ UNCHANGED <<resets, last_call, alive, ctorVars, tx_thread_id, schedVars, prioVars,
                   tx_thread_entry_exit_notify, tx_timer_system_clock, sem,
                   fault>>

\* ------------------------------------------------------------ ~thread
\* An object is destroyed once, by a thread other than its own.
Destroying(h) == \E x \in Handles : pc[x] = "dtor_delete" /\ arg[x] = h

\* ~thread, first part: terminate unless completed, asserting success.
destroyTerminate(c, h) ==
    /\ Calls(c, h)
    /\ h # c
    /\ ~Destroying(h)
    /\ IF tx_thread_state[h] = TX_COMPLETED
       THEN UNCHANGED <<schedVars, sem, fault, exited>>
       ELSE IF tx_thread_terminate(h) = TX_SUCCESS
       THEN thread_terminate(h)
       ELSE /\ fault' = Fault("destroy_terminate", c, h)
            /\ UNCHANGED <<schedVars, sem, exited>>
    /\ pc' = [pc EXCEPT ![c] = "dtor_delete"]
    /\ arg' = [arg EXCEPT ![c] = h]
    /\ UNCHANGED <<resets, last_call, alive, ctorVars, tx_thread_id, prioVars, notifyVars,
                   tx_timer_system_clock>>

\* ~thread, second part: delete, asserting success; the object is gone.
destroyDelete(c) ==
    /\ Running(c)
    /\ pc[c] = "dtor_delete"
    /\ IF tx_thread_delete(arg[c]) = TX_SUCCESS
       THEN /\ tx_thread_id' = [tx_thread_id EXCEPT ![arg[c]] = FALSE]
            /\ alive' = [alive EXCEPT ![arg[c]] = FALSE]
            /\ entry_exit_param_' = Dangle(arg[c], entry_exit_param_)
            /\ pc' = [pc EXCEPT ![c] = "run"]
            /\ arg' = [arg EXCEPT ![c] = NULL]
            /\ UNCHANGED fault
       ELSE /\ fault' = Fault("destroy_delete", c, arg[c])
            /\ UNCHANGED <<tx_thread_id, alive, entry_exit_param_, pc, arg>>
    /\ UNCHANGED <<resets, last_call, ctorVars, schedVars, prioVars, tx_thread_entry_exit_notify,
                   tx_timer_system_clock, sem, exited>>

\* ------------------------------------------------------- specification
\* The steps every specification has: threads start, run and return.
Threads ==
    \/ \E c \in Handles : ThreadEntry(c)
    \/ \E c \in Handles : ThreadExit(c)
    \/ \E c \in Handles : yield(c)

\* The actors terminate, suspend and resume, the calls not recorded.
Control ==
    \/ \E c, h \in Handles : terminate(c, h) /\ Unrecorded
    \/ \E c, h \in Handles : suspend(c, h) /\ Unrecorded
    \/ \E c, h \in Handles : resume(c, h) /\ Unrecorded

\* Threads, and the actors create, terminate, suspend and resume, the calls
\* not recorded.
Lifecycle ==
    \/ Threads
    \/ \E c, h \in Handles : createThread(c, h) /\ Unrecorded
    \/ Control

\* The handle's life and the join protocol.
Next ==
    \/ Lifecycle
    \/ \E c, h \in Handles : reset(c, h)
    \/ \E c, h \in Handles : join(c, h)
    \/ \E c \in Handles : set_entry_exit_callback(c)
    \/ \E c \in Handles : store_entry_exit_param(c)
    \/ \E c \in Handles : useDestroyed(c)
    \/ \E c \in Handles : acquire(c)
    \/ \E c \in Handles : joinReturn(c)
    \/ \E c, h \in Handles : destroyTerminate(c, h)
    \/ \E c \in Handles : destroyDelete(c)

Spec == Init /\ [][Next]_vars

\* The tick clock and sleeping, the calls of terminate(), suspend() and
\* resume() recorded.  No other step reads or writes the tick count or a
\* thread's timer.
SleepNext ==
    \/ Threads
    \/ \E c, h \in Handles : createThread(c, h) /\ Unrecorded
    \/ \E c, h \in Handles : terminateCall(c, h)
    \/ \E c, h \in Handles : suspendCall(c, h)
    \/ \E c, h \in Handles : resumeCall(c, h)
    \/ \E c \in Handles : \E d \in SleepInputs : sleepFor(c, d)
    \/ \E c \in Handles : \E t \in DeadlineInputs : sleepUntil(c, t)
    \/ \E c \in Handles : sleepReturn(c)
    \/ Tick

SleepSpec == Init /\ [][SleepNext]_vars

\* Priorities, the calls of createThread() recorded.  Only createThread and
\* setPriority write the priority fields.
PrioNext ==
    \/ Threads
    \/ \E c, h \in Handles : createThreadCall(c, h)
    \/ Control
    \/ \E c, h \in Handles : \E p \in PrioInputs : setPriority(c, h, p)

PrioSpec == InitCtor /\ [][PrioNext]_vars

\* ---------------------------------------------------------------- claims
Finished(h) == tx_thread_state[h] \in {TX_COMPLETED, TX_TERMINATED}

\* The callers that are past the joinable() check of a join() on h.
Joiners(h) == {c \in Handles : InJoin(c) /\ arg[c] = h}

\* C1: of the threads that call join() on one created handle, at most one is
\* past the joinable() check at a time, in every interleaving of their steps.
C1_OneJoinerPastCheck ==
    \A h \in Handles : tx_thread_id[h] => Cardinality(Joiners(h)) <= 1

\* C2: a join() that passed both assertions returns once its target has
\* completed or been terminated; stated on the states a run passes through:
\* no caller is left blocked on its semaphore while the target has finished,
\* whenever the target's exit fell among the steps of join().
C2_JoinerNotStranded ==
    \A c \in Handles :
        ~ /\ pc[c] = "join_wait"
          /\ tx_thread_state[c] = TX_SEMAPHORE_SUSP
          /\ tx_thread_id[arg[c]]
          /\ Finished(arg[c])

\* C3: a join() that registered its semaphore on its target returns only at
\* or after the moment the target became completed or terminated; the claim
\* that the target is completed or terminated when join() returns entails
\* it, the handle not being finished when join() checked joinable().
C3_JoinReturnsAfterExit ==
    [][\A c \in Handles :
          (joinReturn(c) /\ entry_exit_param_[arg[c]] = c) => exited[c]]_vars

\* C4: join() called by a thread on its own handle ends in the fatal fault
\* state: no semaphore is made, no callback registered, no parameter stored,
\* and the caller neither enters the steps of join() nor blocks.
C4_SelfJoinFaults ==
    [][\A c \in Handles :
          join(c, c) =>
              /\ fault' # NoFault
              /\ UNCHANGED <<tx_thread_entry_exit_notify, entry_exit_param_,
                             sem, tx_thread_state, pc>>]_vars

C4_Witness == fault.kind = "join_self"

\* C5: joinable() is true exactly when the handle is valid (created and not
\* destroyed), its state is neither completed nor terminated, and the
\* parameter slot is unset.
C5_JoinableIffValidUnfinishedUnjoined ==
    \A c \in Actors, h \in Handles :
        alive[h] =>
            (joinable(c, h) <=>
                /\ tx_thread_id[h]
                /\ getState(c, h) \notin {completed, terminated}
                /\ entry_exit_param_[h] = NULL)

\* C6: whenever a handle's state is completed or terminated, joinable() on it
\* is false, whether or not a join was ever started on it.
C6_FinishedNotJoinable ==
    \A c \in Handles, h \in Handles :
        getState(c, h) \in {completed, terminated} => ~joinable(c, h)

\* A handle has completed and no join() was ever started on it.
C6_Witness ==
    \E h \in Handles :
        /\ alive[h]
        /\ tx_thread_id[h]
        /\ tx_thread_state[h] = TX_COMPLETED
        /\ tx_thread_entry_exit_notify[h] = NO_CALLBACK
        /\ entry_exit_param_[h] = NULL

\* C7: join() on a handle for which joinable() is false ends in the fatal
\* fault state; it registers no callback, leaves the callback and parameter
\* slots as they were and does not block the caller.
C7_JoinNotJoinableFaults ==
    [][\A c \in Handles, h \in Handles :
          (join(c, h) /\ ~joinable(c, h)) =>
              /\ fault' = Fault("join_not_joinable", c, h)
              /\ UNCHANGED <<tx_thread_entry_exit_notify, entry_exit_param_,
                             sem, tx_thread_state, pc>>]_vars

\* join() was called on a handle another join() is in progress on.
C7_Witness ==
    /\ fault.kind = "join_not_joinable"
    /\ Joiners(fault.target) # {}
    /\ ~Finished(fault.target)

\* C8: sleepUntil with a deadline at or before the current tick count sleeps
\* for zero ticks: the caller is not put to sleep.
C8_SleepUntilPastDoesNotSleep ==
    [][\A c \in Handles, t \in DeadlineInputs :
          (sleepUntil(c, t) /\ toTicksTimePoint(t) <= tx_timer_system_clock)
              => (tx_thread_state'[c] = TX_READY /\ pc'[c] = "run")]_vars

\* C9: setPriority on a created handle with a value above priority::max()
\* ends in the fatal fault state and does not return normally.
C9_RejectedPriorityFaults ==
    ( /\ last_call.op = "setPriority"
      /\ tx_thread_id[last_call.target]
      /\ last_call.input > priority_max )
        => fault # NoFault

\* C10: on a created handle, setPriority(priority::min()) and
\* setPriority(priority::max()) succeed and getPriority() returns the value.
C10_BoundaryPrioritiesAccepted ==
    ( /\ last_call.op = "setPriority"
      /\ tx_thread_id[last_call.target]
      /\ last_call.input \in {priority_min, priority_max} )
        => /\ last_call.status = TX_SUCCESS
           /\ getPriority(last_call.target) = last_call.input

\* C11: getState() on a handle that is constructed and not yet created
\* returns neither running nor ready, whichever thread calls it.
C11_UncreatedNotReady ==
    \A c \in Handles, h \in Handles :
        (alive[h] /\ ~tx_thread_id[h]) => getState(c, h) \notin {running, ready}

C13_DestroyReleasesJoiner ==
    [][\A c \in Handles, h \in Handles :
          destroyTerminate(c, h) =>
              \A j \in Handles :
                  ( /\ pc[j] = "join_wait"
                    /\ tx_thread_state[j] = TX_SEMAPHORE_SUSP
                    /\ arg[j] = h
                    /\ entry_exit_param_[h] = j )
                      => tx_thread_state'[j] # TX_SEMAPHORE_SUSP]_vars

C15_SuspendResumeIdempotent ==
    [][\A c \in Handles, h \in Handles :
          /\ ( /\ suspendCall(c, h)
               /\ tx_thread_id[h]
               /\ tx_thread_state[h] = TX_SUSPENDED )
                => UNCHANGED programVars
          /\ ( /\ resumeCall(c, h)
               /\ tx_thread_id[h]
               /\ tx_thread_state[h] # TX_SUSPENDED
               /\ ~tx_thread_delayed_suspend[h] )
                => UNCHANGED programVars
          /\ (suspendCall(c, h) \/ resumeCall(c, h)) => fault' = NoFault
          /\ ( /\ resumeCall(c, h)
               /\ tx_thread_id[h]
               /\ tx_thread_state[h] = TX_SUSPENDED )
                => tx_thread_state'[h] = TX_READY]_vars

\* suspend() was called on a thread that was suspended already.
C15_Witness ==
    /\ last_call.op = "suspend"
    /\ last_call.before = TX_SUSPENDED
    /\ last_call.status = TX_SUCCESS
    /\ tx_thread_id[last_call.target]
    /\ tx_thread_state[last_call.target] = TX_SUSPENDED
    /\ fault = NoFault

\* C16: when a join() that registered its semaphore on a handle returns, the
\* handle's parameter slot no longer references the semaphore: it is unset.
C16_ParamUnsetAfterJoin ==
    [][\A c \in Handles :
          (joinReturn(c) /\ entry_exit_param_[arg[c]] = c)
              => entry_exit_param_'[arg[c]] = NULL]_vars

\* C17: the join callback called with the entry reason code, when a thread
\* on which it is registered starts, signals no semaphore, releases no
\* joiner and changes neither the registration nor the fault state.
C17_CallbackIgnoresEntry ==
    [][\A t \in Handles :
          (ThreadEntry(t) /\ tx_thread_entry_exit_notify[t] = JOIN_EXIT_CALLBACK)
              => UNCHANGED <<sem, tx_thread_state, tx_thread_delayed_suspend,
                             notifyVars, fault>>]_vars

\* A joiner registered on a thread before it started is still blocked after
\* the thread has started.
C17_Witness ==
    /\ last_call.op = "join_exit_callback"
    /\ last_call.input = TX_THREAD_ENTRY
    /\ resets = 0
    /\ pc[last_call.target] = "run"
    /\ \E c \in Handles :
          /\ pc[c] = "join_wait"
          /\ tx_thread_state[c] = TX_SEMAPHORE_SUSP
          /\ arg[c] = last_call.target
          /\ entry_exit_param_[last_call.target] = c
          /\ ~exited[c]
          /\ \A d \in Handles \ {c} : ~InJoin(d)

\* C18: resume() on the handle of a thread that is blocked in
\* sleepFor(infinity) wakes it: the thread is ready and its sleepFor returns.
C18_ResumeWakesInfiniteSleep ==
    [][\A c \in Handles, h \in Handles :
          ( /\ resumeCall(c, h)
            /\ pc[h] = "sleep"
            /\ tx_thread_state[h] = TX_SLEEP
            /\ tx_thread_timer[h] = toTicks(infinity)
            /\ ~tx_thread_delayed_suspend[h] )
              => tx_thread_state'[h] = TX_READY]_vars

\* C19: createThread() on a handle that is already created, or whose stack
\* size is too small, or whose priority is priority::max(), ends in the fatal
\* fault state; a createThread() that does not fault has registered the
\* handle, which was not registered before.
C19_CreateFailureFaults ==
    [][\A c \in Handles, h \in Handles :
          createThreadCall(c, h) =>
              /\ ( \/ tx_thread_id[h]
                   \/ stack_size[h] = STACK_TOO_SMALL
                   \/ prio[h] = priority_max )
                    => /\ fault' = Fault("createThread", c, h)
                       /\ tx_thread_id'[h] = tx_thread_id[h]
              /\ fault' = NoFault => (tx_thread_id'[h] /\ ~tx_thread_id[h])]_vars

\* createThread() was called on a handle constructed with priority::max().
C19_Witness ==
    /\ last_call.op = "createThread"
    /\ last_call.input = priority_max
    /\ last_call.status = TX_PRIORITY_ERROR
    /\ fault = Fault("createThread", last_call.caller, last_call.target)
    /\ ~tx_thread_id[last_call.target]

\* C20: sleepFor with a duration of zero ticks returns at once: the caller is
\* not blocked, the program does not fault and nothing of its state changes.
C20_SleepZeroReturns ==
    [][\A c \in Handles :
          sleepFor(c, duration(0)) =>
              /\ pc'[c] = "run"
              /\ tx_thread_state'[c] = TX_READY
              /\ fault' = NoFault
              /\ UNCHANGED programVars]_vars

\* sleepFor(duration(0)) was called and its caller runs on.
C20_Witness ==
    /\ last_call.op = "sleepFor"
    /\ last_call.input = 0
    /\ last_call.status = TX_SUCCESS
    /\ Running(last_call.caller)
    /\ pc[last_call.caller] = "run"

\* C21: for every tick count d of the native unsigned range, toTicks of the
\* duration built from d is d, and so is toTicks of the time point built from
\* that duration; the clock's time point converts back to the tick count.
C21_ToTicksRoundTrip ==
    /\ \A d \in 0..infinite_delay :
          /\ toTicks(duration(d)) = d
          /\ toTicksTimePoint(time_point(duration(d))) = d
    /\ toTicksTimePoint(now) = tx_timer_system_clock

\* The largest tick count went through toTicks into the kernel's sleep, at a
\* tick count that is not zero.
C21_Witness ==
    /\ last_call.op = "sleepFor"
    /\ last_call.input = infinite_delay
    /\ tx_thread_timer[last_call.caller] = infinite_delay
    /\ toTicksTimePoint(now) = 1

\* C22: getState() maps the kernel state READY to running for the caller's
\* own handle and to ready for any other, COMPLETED to completed, TERMINATED
\* to terminated and every other kernel state to suspended; it reports running
\* for no handle but the caller's own, so for at most one handle at a time.
C22_GetStateProjection ==
    \A c \in Handles :
        /\ \A h \in Handles :
              /\ tx_thread_state[h] = TX_READY
                    => getState(c, h) = IF h = c THEN running ELSE ready
              /\ tx_thread_state[h] = TX_COMPLETED => getState(c, h) = completed
              /\ tx_thread_state[h] = TX_TERMINATED
                    => getState(c, h) = terminated
              /\ tx_thread_state[h] \notin {TX_READY, TX_COMPLETED, TX_TERMINATED}
                    => getState(c, h) = suspended
              /\ getState(c, h) = running => h = c
        /\ Cardinality({h \in Handles : getState(c, h) = running}) <= 1

\* A running thread sees itself running, a ready thread ready and a sleeping
\* thread suspended.
C22_Witness ==
    \E c \in Actors, h \in Handles, g \in Handles :
        /\ Running(c) /\ pc[c] = "run"
        /\ getState(c, c) = running
        /\ h # c /\ tx_thread_id[h] /\ tx_thread_state[h] = TX_READY
        /\ getState(c, h) = ready
        /\ tx_thread_id[g] /\ tx_thread_state[g] = TX_SLEEP
        /\ getState(c, g) = suspended

\* C23: a successful createThread() makes getPriority() the priority given at
\* construction; a setPriority() with an accepted value makes it that value;
\* no other step changes it; and on a created handle the preemption threshold
\* equals the priority before and after every step.
C23_PriorityIsLastSet ==
    [][\A h \in Handles :
          /\ \A c \in Handles :
                (createThreadCall(c, h) /\ fault' = NoFault)
                    => getPriority(h)' = prio[h]
          /\ \A c \in Handles, p \in PrioInputs :
                (setPriority(c, h, p) /\ tx_thread_id[h] /\ p < TX_MAX_PRIORITIES)
                    => getPriority(h)' = p
          /\ getPriority(h)' # getPriority(h)
                => \/ \E c \in Handles : createThreadCall(c, h)
                   \/ \E c \in Handles, p \in PrioInputs :
                         setPriority(c, h, p) /\ p < TX_MAX_PRIORITIES
          /\ tx_thread_id[h]
                => tx_thread_user_preempt_threshold[h] = getPriority(h)
          /\ tx_thread_id'[h]
                => tx_thread_user_preempt_threshold'[h] = getPriority(h)']_vars

\* A priority other than the one given at construction was set and is the one
\* getPriority() returns.
C23_Witness ==
    /\ last_call.op = "setPriority"
    /\ last_call.status = TX_SUCCESS
    /\ last_call.input = TOP_PRIORITY - 1
    /\ prio[last_call.target] # last_call.input
    /\ getPriority(last_call.target) = last_call.input
    /\ tx_thread_user_preempt_threshold[last_call.target] = last_call.input

\* C24: whenever a thread whose handle has the join callback registered exits
\* (its entry function returns, or it is terminated), the handle's parameter
\* holds the semaphore of a join() on that handle that has not returned.
C24_ExitFindsBlockedJoin ==
    [][\A t \in Handles :
          (/\ tx_thread_id[t]
           /\ tx_thread_entry_exit_notify[t] = JOIN_EXIT_CALLBACK
           /\ \/ ThreadExit(t)
              \/ Terminates(t) /\ \E c \in Handles : terminate(c, t))
            => /\ entry_exit_param_[t] \in Handles
               /\ InJoin(entry_exit_param_[t])
               /\ arg[entry_exit_param_[t]] = t]_vars

\* C25: a join() is blocked on its semaphore only while the join callback is
\* registered on the handle it joins.
C25_BlocksOnlyIfRegistered ==
    \A c \in Handles :
        (pc[c] = "join_wait" /\ tx_thread_state[c] = TX_SEMAPHORE_SUSP)
            => tx_thread_entry_exit_notify[arg[c]] = JOIN_EXIT_CALLBACK

\* C26: the first part of the destructor, run on a handle that was never
\* created, leaves the program out of the fault state.
C26_DestroyUncreatedCompletes ==
    [][\A c, h \in Handles :
          (destroyTerminate(c, h) /\ ~tx_thread_id[h]) => fault' = NoFault]_vars

\* C27: once a created handle's thread is completed or terminated, no step of
\* the program (suspend, resume, terminate, the steps of a join, a thread's own
\* steps) changes its kernel state or lets its entry function take a step,
\* except a reset() of that handle or its destruction; and no setPriority()
\* call that can be made in such a state changes either.
C27_FinishedIsAbsorbing ==
    /\ [](\A h \in Handles :
             (tx_thread_id[h] /\ Finished(h))
                 => \A c \in Actors, p \in PrioInputs :
                       ~ENABLED (/\ setPriority(c, h, p)
                                 /\ \/ tx_thread_state'[h] # tx_thread_state[h]
                                    \/ pc'[h] # pc[h]))
    /\ [][\A h \in Handles :
             (tx_thread_id[h] /\ Finished(h))
                 => \/ /\ tx_thread_state'[h] = tx_thread_state[h]
                       /\ pc'[h] = pc[h]
                       /\ getState(h, h)' = getState(h, h)
                       /\ getState(h, h) \in {completed, terminated}
                    \/ \E c \in Handles : reset(c, h)
                    \/ ~alive'[h]]_vars

\* A join was attempted on a created handle whose thread had been terminated
\* while it ran: the attempt ended in the assertion and the handle still
\* reports terminated.
C27_Witness ==
    /\ fault.kind = "join_not_joinable"
    /\ tx_thread_id[fault.target]
    /\ tx_thread_state[fault.target] = TX_TERMINATED
    /\ pc[fault.target] = "run"
    /\ getState(fault.caller, fault.target) = terminated

====
